---------------------------- MODULE Spec2Model ----------------------------
(***************************************************************************)
(* A model of packages/vulcan-ui-material/.../MuiCheckboxGroup.jsx: the    *)
(* checkbox group control (changeCheckbox, renderElement) and the default  *)
(* mutations generator (getDefaultMutations, registerCollectionCallbacks,  *)
(* the create / update / upsert / delete descriptors and their handlers).  *)
(*                                                                         *)
(* JavaScript values are modelled as follows.  A string that the code      *)
(* transforms (a type name, an option value) is a sequence of characters;  *)
(* an option flag is one of "true", "false", "undefined"; an absent user   *)
(* is the string "null"; an absent document is the record Null.            *)
(***************************************************************************)
EXTENDS Naturals, Integers, Sequences, FiniteSets

VARIABLES
  typeName,     \* getDefaultMutations' first argument
  options,      \* getDefaultMutations' second argument, as passed by the caller
  built,        \* whether getDefaultMutations has run
  mutations,    \* the keys of the object getDefaultMutations returned
  Callbacks,    \* the process-wide callback registry (registerCallback's table)
  granted,      \* the authorization oracle: the <<user, action>> pairs Users.canDo allows
  checked,      \* the last evaluation of a descriptor's check(user, document)
  docs,         \* the collection: document id -> stored document or Null
  inv,          \* the handler invocations in flight, one per request slot
  started,      \* the number of handler invocations started so far
  props,        \* the checkbox group's props (inputProperties, variant, value) and
                \* whether the value is one changeCheckbox reported
  rendered,     \* the `checked` prop of each control, as last rendered
  refs          \* the DOM inputs' `checked` state, by option index

vars == <<typeName, options, built, mutations, Callbacks, granted, checked,
          docs, inv, started, props, rendered, refs>>

----------------------------------------------------------------------------
(* Bounds of the model *)

MaxNameLen == 2
MaxGrants == 2
MaxInvocations == 2
MaxOptions == 3

----------------------------------------------------------------------------
(* JavaScript values *)

Undefined == "undefined"
NoUser == "null"
Null == [isNull |-> TRUE]

Truthy(v) == v \notin {"false", Undefined}

RECURSIVE SeqsUpTo(_, _)
SeqsUpTo(S, n) ==
  IF n = 0 THEN {<<>>}
  ELSE LET shorter == SeqsUpTo(S, n - 1)
       IN shorter \cup {Append(s, c) : s \in shorter, c \in S}

Range(s) == {s[i] : i \in DOMAIN s}

----------------------------------------------------------------------------
(* Type names and permission action strings *)

Chars == {"P", "s"}
TypeNames == SeqsUpTo(Chars, MaxNameLen) \ {<<>>}

LowerChar(c) == IF c = "P" THEN "p" ELSE c

\* String.prototype.toLowerCase
toLowerCase(s) == [i \in DOMAIN s |-> LowerChar(s[i])]

\* the template literal `${typeName.toLowerCase()}<suffix>`
ActionName(tn, suffix) == Append(toLowerCase(tn), suffix)

PermissionSuffixes == {".new", ".edit.own", ".edit.all", ".remove.own", ".remove.all"}

Users == {"alice", "bob"}
UserValues == Users \cup {NoUser}

Document(id, owner) == [isNull |-> FALSE, _id |-> id, userId |-> owner]

\* Users.canDo(user, action): the authorization oracle; `oracle` is the set of
\* <<user, action>> pairs it allows
canDo(oracle, user, action) == <<user, action>> \in oracle

\* Users.owns(user, document)
owns(user, document) == document.userId = user

----------------------------------------------------------------------------
(* getDefaultMutations: the options argument and the keys returned *)

FlagValues == {"true", "false", Undefined}
OverrideFns == {"denyAll", "absentOnly", "ownerOnly"}
OverrideValues == {Undefined} \cup OverrideFns

OptionObjects ==
  [passed : {TRUE}, create : FlagValues, update : FlagValues,
   upsert : FlagValues, delete : FlagValues,
   newCheck : OverrideValues, editCheck : OverrideValues,
   removeCheck : OverrideValues]

\* the call getDefaultMutations(typeName), with no second argument
OmittedOptions ==
  [passed |-> FALSE, create |-> Undefined, update |-> Undefined,
   upsert |-> Undefined, delete |-> Undefined,
   newCheck |-> Undefined, editCheck |-> Undefined, removeCheck |-> Undefined]

\* the default parameter value: used only when the argument is omitted
DefaultOptions(arg) ==
  IF arg.passed THEN arg
  ELSE [arg EXCEPT !.create = "true", !.update = "true",
                   !.upsert = "true", !.delete = "true"]

\* a user-supplied override predicate applied to (user, document)
ApplyOverride(fn, user, document) ==
  IF fn = "absentOnly" THEN user = NoUser \/ document = Null
  ELSE IF fn = "ownerOnly"
       THEN user # NoUser /\ document # Null /\ document.userId = user
       ELSE FALSE

getDefaultMutations(tn, arg) ==
  LET o == DefaultOptions(arg)
  IN  {k \in {"create"} : Truthy(o.create)}
      \cup {k \in {"update"} : Truthy(o.update)}
      \cup {k \in {"upsert"} : Truthy(o.upsert)}
      \cup {k \in {"delete"} : Truthy(o.delete)}

----------------------------------------------------------------------------
(* The descriptors' check functions.  Each returns the result together     *)
(* with the oracle calls it made.                                          *)

CheckResult(result, asked, ownsCalled) ==
  [result |-> result, canDo |-> asked, owns |-> ownsCalled]

createCheck(o, tn, oracle, user, document) ==
  IF Truthy(o.newCheck)
  THEN CheckResult(ApplyOverride(o.newCheck, user, document), {}, FALSE)
  ELSE CheckResult(canDo(oracle, user, ActionName(tn, ".new")),
                   {ActionName(tn, ".new")}, FALSE)

updateCheck_ignoresOverride(o, tn, oracle, user, document) ==
  IF user = NoUser \/ document = Null
  THEN CheckResult(FALSE, {}, FALSE)
  ELSE IF owns(user, document)
       THEN CheckResult(canDo(oracle, user, ActionName(tn, ".edit.own")),
                        {ActionName(tn, ".edit.own")}, TRUE)
       ELSE CheckResult(canDo(oracle, user, ActionName(tn, ".edit.all")),
                        {ActionName(tn, ".edit.all")}, TRUE)

updateCheck(o, tn, oracle, user, document) ==
  IF Truthy(o.editCheck)
  THEN CheckResult(ApplyOverride(o.editCheck, user, document), {}, FALSE)
  ELSE IF user = NoUser \/ document = Null
       THEN CheckResult(FALSE, {}, FALSE)
       ELSE IF owns(user, document)
            THEN CheckResult(canDo(oracle, user, ActionName(tn, ".edit.own")),
                             {ActionName(tn, ".edit.own")}, TRUE)
            ELSE CheckResult(canDo(oracle, user, ActionName(tn, ".edit.all")),
                             {ActionName(tn, ".edit.all")}, TRUE)

deleteCheck_ownerFallsBackToAll(o, tn, oracle, user, document) ==
  IF Truthy(o.removeCheck)
  THEN CheckResult(ApplyOverride(o.removeCheck, user, document), {}, FALSE)
  ELSE IF user = NoUser \/ document = Null
       THEN CheckResult(FALSE, {}, FALSE)
       ELSE CheckResult(
              (owns(user, document)
                 /\ canDo(oracle, user, ActionName(tn, ".remove.own")))
              \/ canDo(oracle, user, ActionName(tn, ".remove.all")),
              {ActionName(tn, ".remove.own"), ActionName(tn, ".remove.all")},
              TRUE)

deleteCheck(o, tn, oracle, user, document) ==
  IF Truthy(o.removeCheck)
  THEN CheckResult(ApplyOverride(o.removeCheck, user, document), {}, FALSE)
  ELSE IF user = NoUser \/ document = Null
       THEN CheckResult(FALSE, {}, FALSE)
       ELSE IF owns(user, document)
            THEN CheckResult(canDo(oracle, user, ActionName(tn, ".remove.own")),
                             {ActionName(tn, ".remove.own")}, TRUE)
            ELSE CheckResult(canDo(oracle, user, ActionName(tn, ".remove.all")),
                             {ActionName(tn, ".remove.all")}, TRUE)

\* mutations[op].check(user, document), with the options of the enclosing call
Check(op, o, tn, oracle, user, document) ==
  IF op = "create" THEN createCheck(o, tn, oracle, user, document)
  ELSE IF op = "update" THEN updateCheck(o, tn, oracle, user, document)
  ELSE deleteCheck(o, tn, oracle, user, document)

----------------------------------------------------------------------------
(* registerCollectionCallbacks *)

CallbackDefinition(name, arguments, runs, returns) ==
  [name |-> name, arguments |-> arguments, runs |-> runs, returns |-> returns]

\* the definitions passed to registerCallback, in call order
CollectionCallbacks(collectionName) ==
  LET n == toLowerCase(collectionName)
  IN << CallbackDefinition(Append(n, ".create.validate"),
          <<"document", "currentUser", "validationErrors">>, "sync", "document"),
        CallbackDefinition(Append(n, ".create.before"),
          <<"document", "currentUser">>, "sync", "document"),
        CallbackDefinition(Append(n, ".create.after"),
          <<"document", "currentUser">>, "sync", "document"),
        CallbackDefinition(Append(n, ".create.async"),
          <<"document", "currentUser", "collection">>, "async", "null"),
        CallbackDefinition(Append(n, ".update.validate"),
          <<"modifier", "document", "currentUser", "validationErrors">>,
          "sync", "modifier"),
        CallbackDefinition(Append(n, ".update.before"),
          <<"modifier", "document", "currentUser">>, "sync", "modifier"),
        CallbackDefinition(Append(n, ".update.after"),
          <<"modifier", "document", "currentUser">>, "sync", "document"),
        CallbackDefinition(Append(n, ".update.async"),
          <<"newDocument", "document", "currentUser", "collection">>,
          "async", "null"),
        CallbackDefinition(Append(n, ".delete.validate"),
          <<"document", "currentUser", "validationErrors">>, "sync", "document"),
        CallbackDefinition(Append(n, ".delete.before"),
          <<"document", "currentUser">>, "sync", "null"),
        CallbackDefinition(Append(n, ".delete.async"),
          <<"document", "currentUser", "collection">>, "async", "null") >>

\* registerCallback(definition): registration by name into the registry
registerCallback(registry, definition) ==
  IF \E i \in DOMAIN registry : registry[i].name = definition.name
  THEN registry
  ELSE Append(registry, definition)

RECURSIVE RegisterAll(_, _)
RegisterAll(registry, definitions) ==
  IF definitions = <<>> THEN registry
  ELSE RegisterAll(registerCallback(registry, Head(definitions)), Tail(definitions))

registerCollectionCallbacks(registry, collectionName) ==
  RegisterAll(registry, CollectionCallbacks(collectionName))

----------------------------------------------------------------------------
(* The collection, the handler invocations and the external helpers *)

DocIds == {"d1", "d2"}
Procs == {"r1", "r2"}

Data(owner) == [isNull |-> FALSE, userId |-> owner]
DataValues == {Data(u) : u \in Users}

NoArgs == [name |-> "none", documentId |-> "none", data |-> Null]
NotApplied == [applied |-> FALSE]

IdleInvocation ==
  [pc |-> "idle", op |-> "none", handler |-> "none", currentUser |-> NoUser,
   selector |-> [documentId |-> "none"], data |-> Null, document |-> Null,
   existingDocument |-> Null,
   calls |-> <<>>, mutatorArgs |-> NoArgs, error |-> "none", result |-> Null,
   checkArg |-> Null, appliedOn |-> NotApplied, wrote |-> FALSE]

\* Connectors.get(collection, documentId or selector)
ConnectorsGet(collection, documentId) ==
  IF documentId \in DOMAIN collection THEN collection[documentId] ELSE Null

\* Utils.performCheck(check, user, document): passes when the check returns true
performCheck(checkResult) == checkResult.result

Fail(r, error) == [r EXCEPT !.pc = "failed", !.error = error]

CallMutator(r, name, documentId, data) ==
  [r EXCEPT !.pc = "mutator",
            !.calls = Append(@, name),
            !.mutatorArgs = [name |-> name, documentId |-> documentId, data |-> data]]

\* the documents the collection can still take: createMutator needs a fresh id
PendingCreates == {p \in Procs : inv[p].pc = "mutator" /\ inv[p].mutatorArgs.name = "createMutator"}
StoredIds == {d \in DocIds : docs[d] # Null}

----------------------------------------------------------------------------
(* The handlers' synchronous prefixes.  `args` is the handler's second     *)
(* argument, destructured as { input }.                                    *)

createMutation_checkSkipped(r, args) ==
  IF "input" \notin DOMAIN args THEN Fail([r EXCEPT !.handler = "create"], "TypeError")
  ELSE CallMutator([r EXCEPT !.handler = "create", !.data = args.input.data,
                             !.checkArg = args.input.data],
                   "createMutator", "none", args.input.data)

\* mutations.create.mutation, up to its first await
createMutation(r, args) ==
  IF "input" \notin DOMAIN args THEN Fail([r EXCEPT !.handler = "create"], "TypeError")
  ELSE LET data == args.input.data
           r1 == [r EXCEPT !.handler = "create", !.data = data, !.checkArg = data]
       IN  IF performCheck(createCheck(DefaultOptions(options), typeName, granted,
                                       r.currentUser, data))
           THEN CallMutator(r1, "createMutator", "none", data)
           ELSE Fail(r1, "AuthorizationDenied")

\* mutations.update.mutation, up to its first await
updateMutation(r, args) ==
  IF "input" \notin DOMAIN args THEN Fail([r EXCEPT !.handler = "update"], "TypeError")
  ELSE [r EXCEPT !.handler = "update", !.pc = "get",
                 !.selector = args.input.selector, !.data = args.input.data,
                 !.calls = Append(@, "Connectors.get")]

\* mutations.delete.mutation, up to its first await
deleteMutation(r, args) ==
  IF "input" \notin DOMAIN args THEN Fail([r EXCEPT !.handler = "delete"], "TypeError")
  ELSE [r EXCEPT !.handler = "delete", !.pc = "get",
                 !.selector = args.input.selector,
                 !.calls = Append(@, "Connectors.get")]

\* mutations.upsert.mutation, up to its first await
upsertMutation(r, args) ==
  IF "input" \notin DOMAIN args THEN Fail([r EXCEPT !.handler = "upsert"], "TypeError")
  ELSE [r EXCEPT !.handler = "upsert", !.pc = "get",
                 !.selector = args.input.selector, !.data = args.input.data,
                 !.calls = Append(@, "Connectors.get")]

updateResume_checkSkipped(r) ==
  CallMutator([r EXCEPT !.checkArg = r.document],
              "updateMutator", r.selector.documentId, r.data)

\* mutations.update.mutation, from the fetched document to its second await
updateResume(r) ==
  LET r1 == [r EXCEPT !.checkArg = r.document]
  IN  IF performCheck(updateCheck(DefaultOptions(options), typeName, granted,
                                  r.currentUser, r.document))
      THEN CallMutator(r1, "updateMutator", r.selector.documentId, r.data)
      ELSE Fail(r1, "AuthorizationDenied")

\* mutations.delete.mutation, from the fetched document to its second await
deleteResume(r) ==
  LET r1 == [r EXCEPT !.checkArg = r.document]
  IN  IF performCheck(deleteCheck(DefaultOptions(options), typeName, granted,
                                  r.currentUser, r.document))
      THEN CallMutator(r1, "deleteMutator", r.selector.documentId, Null)
      ELSE Fail(r1, "AuthorizationDenied")

\* mutations.upsert.mutation, from existingDocument on: the re-dispatch through
\* collection.options.mutations, whose second argument is { selector, data }
upsertResume(r) ==
  LET r1 == [r EXCEPT !.existingDocument = r.document, !.handler = "dispatch"]
  IN  IF r.document # Null
      THEN IF "update" \notin mutations THEN Fail(r1, "TypeError")
           ELSE updateMutation([r1 EXCEPT !.calls = Append(@, "update.mutation")],
                               [selector |-> r.selector, data |-> r.data])
      ELSE IF "create" \notin mutations THEN Fail(r1, "TypeError")
           ELSE createMutation([r1 EXCEPT !.calls = Append(@, "create.mutation")],
                               [data |-> r.data])

----------------------------------------------------------------------------
(* The handlers as actions *)

HandlerUnchanged ==
  UNCHANGED <<typeName, options, built, mutations, Callbacks, granted, checked,
              props, rendered, refs>>

Begin(p, op, user) ==
  /\ inv[p].pc = "idle"
  /\ started < MaxInvocations
  /\ op \in mutations
  /\ started' = started + 1

Fresh(op, user) == [IdleInvocation EXCEPT !.op = op, !.currentUser = user]

CreateInvoked(p) ==
  \E user \in UserValues, data \in DataValues :
    /\ Begin(p, "create", user)
    /\ Cardinality(StoredIds) + Cardinality(PendingCreates) < Cardinality(DocIds)
    /\ inv' = [inv EXCEPT ![p] =
                 createMutation(Fresh("create", user), [input |-> [data |-> data]])]
    /\ UNCHANGED docs
    /\ HandlerUnchanged

UpdateInvoked(p) ==
  \E user \in UserValues, d \in DocIds, data \in DataValues :
    /\ Begin(p, "update", user)
    /\ inv' = [inv EXCEPT ![p] =
                 updateMutation(Fresh("update", user),
                   [input |-> [selector |-> [documentId |-> d], data |-> data]])]
    /\ UNCHANGED docs
    /\ HandlerUnchanged

UpsertInvoked(p) ==
  \E user \in UserValues, d \in DocIds, data \in DataValues :
    /\ Begin(p, "upsert", user)
    /\ Cardinality(StoredIds) + Cardinality(PendingCreates) < Cardinality(DocIds)
    /\ inv' = [inv EXCEPT ![p] =
                 upsertMutation(Fresh("upsert", user),
                   [input |-> [selector |-> [documentId |-> d], data |-> data]])]
    /\ UNCHANGED docs
    /\ HandlerUnchanged

DeleteInvoked(p) ==
  \E user \in UserValues, d \in DocIds :
    /\ Begin(p, "delete", user)
    /\ inv' = [inv EXCEPT ![p] =
                 deleteMutation(Fresh("delete", user),
                   [input |-> [selector |-> [documentId |-> d]]])]
    /\ UNCHANGED docs
    /\ HandlerUnchanged

\* the awaited Connectors.get reads the collection
ConnectorsGetResolves(p) ==
  /\ inv[p].pc = "get"
  /\ inv' = [inv EXCEPT ![p].pc = "resume",
                        ![p].document = ConnectorsGet(docs, inv[p].selector.documentId)]
  /\ UNCHANGED <<docs, started>>
  /\ HandlerUnchanged

Resumes(p, handler, next) ==
  /\ inv[p].pc = "resume"
  /\ inv[p].handler = handler
  /\ inv' = [inv EXCEPT ![p] = next]
  /\ UNCHANGED <<docs, started>>
  /\ HandlerUnchanged

UpdateResumes(p) == Resumes(p, "update", updateResume(inv[p]))
DeleteResumes(p) == Resumes(p, "delete", deleteResume(inv[p]))
UpsertResumes(p) == Resumes(p, "upsert", upsertResume(inv[p]))

Pending(p, name) ==
  /\ inv[p].pc = "mutator"
  /\ inv[p].mutatorArgs.name = name

\* createMutator({ collection, data, ... }) inserts the document and returns it
CreateMutatorResolves(p) ==
  /\ Pending(p, "createMutator")
  /\ \E d \in DocIds :
       /\ docs[d] = Null
       /\ LET document == Document(d, inv[p].data.userId)
          IN  /\ docs' = [docs EXCEPT ![d] = document]
              /\ inv' = [inv EXCEPT ![p].pc = "done", ![p].result = document,
                                    ![p].wrote = TRUE]
  /\ UNCHANGED started
  /\ HandlerUnchanged

\* updateMutator({ collection, documentId, data, ... }) applies data to the
\* stored document and returns it; it throws when there is none
UpdateMutatorResolves(p) ==
  /\ Pending(p, "updateMutator")
  /\ LET d == inv[p].mutatorArgs.documentId
         stored == ConnectorsGet(docs, d)
     IN  IF stored = Null
         THEN /\ inv' = [inv EXCEPT ![p] = [Fail(@, "MutatorError") EXCEPT
                                              !.appliedOn = stored]]
              /\ UNCHANGED docs
         ELSE LET document == Document(d, inv[p].mutatorArgs.data.userId)
              IN  /\ docs' = [docs EXCEPT ![d] = document]
                  /\ inv' = [inv EXCEPT ![p].pc = "done", ![p].result = document,
                                        ![p].appliedOn = stored, ![p].wrote = TRUE]
  /\ UNCHANGED started
  /\ HandlerUnchanged

\* deleteMutator({ collection, documentId, ... }) removes the stored document
\* and returns it; it throws when there is none
DeleteMutatorResolves(p) ==
  /\ Pending(p, "deleteMutator")
  /\ LET d == inv[p].mutatorArgs.documentId
         stored == ConnectorsGet(docs, d)
     IN  IF stored = Null
         THEN /\ inv' = [inv EXCEPT ![p] = [Fail(@, "MutatorError") EXCEPT
                                              !.appliedOn = stored]]
              /\ UNCHANGED docs
         ELSE /\ docs' = [docs EXCEPT ![d] = Null]
              /\ inv' = [inv EXCEPT ![p].pc = "done", ![p].result = stored,
                                    ![p].appliedOn = stored, ![p].wrote = TRUE]
  /\ UNCHANGED started
  /\ HandlerUnchanged

\* the handler's promise has settled and the request is over
Settled(p) ==
  /\ inv[p].pc \in {"done", "failed"}
  /\ inv' = [inv EXCEPT ![p] = IdleInvocation]
  /\ UNCHANGED <<docs, started>>
  /\ HandlerUnchanged

----------------------------------------------------------------------------
(* The checkbox group *)

OptionValues == {<<"a">>, <<"b">>, <<"a", "b">>}
LabelLengths == {10, 20, 30}
ThreeColumnBelow == 20
TwoColumnBelow == 30

Option(value, label, disabled) == [value |-> value, label |-> label, disabled |-> disabled]

DistinctValues(os) == \A i, j \in DOMAIN os : os[i].value = os[j].value => i = j

OptionLists ==
  {os \in SeqsUpTo({Option(v, l, d) : v \in OptionValues, l \in LabelLengths,
                                      d \in BOOLEAN}, MaxOptions) :
     os # <<>> /\ DistinctValues(os)}

Max(a, b) == IF a > b THEN a ELSE b

\* String.prototype.indexOf(searchString)
indexOf(s, t) ==
  LET found == {i \in 0..(Len(s) - Len(t)) : SubSeq(s, i + 1, i + Len(t)) = t}
  IN  IF found = {} THEN -1 ELSE CHOOSE i \in found : \A j \in found : i <= j

RECURSIVE maxLabelLength(_)
maxLabelLength(os) ==
  IF os = <<>> THEN 0 ELSE Max(Head(os).label, maxLabelLength(Tail(os)))

columnClass(maxLength) ==
  IF maxLength < ThreeColumnBelow THEN "threeColumn"
  ELSE IF maxLength < TwoColumnBelow THEN "twoColumn" ELSE ""

\* renderElement: one control per option, and the group's column class
renderElement(pr) ==
  [controls |->
     [k \in DOMAIN pr.options |->
        LET value == pr.options[k].value
        IN  [checked |-> indexOf(value, value) # -1,
             disabled |-> pr.options[k].disabled \/ pr.disabled,
             component |-> IF pr.variant = "switch" THEN "Switch" ELSE "Checkbox",
             value |-> value]],
   columnClass |-> columnClass(maxLabelLength(pr.options))]

\* changeCheckbox: the values of the options whose input is checked, in option order
RECURSIVE checkedValues(_, _, _)
checkedValues(os, inputs, k) ==
  IF k > Len(os) THEN <<>>
  ELSE (IF inputs[k] THEN <<os[k].value>> ELSE <<>>) \o checkedValues(os, inputs, k + 1)

changeCheckbox(pr, inputs) == checkedValues(pr.options, inputs, 1)

InputsOf(r) == [k \in DOMAIN r.controls |-> r.controls[k].checked]

SubLists(os) ==
  {checkedValues(os, inputs, 1) : inputs \in [DOMAIN os -> BOOLEAN]}

NoProps ==
  [options |-> <<>>, disabled |-> FALSE, variant |-> "checkbox", value |-> <<>>,
   reported |-> FALSE]

\* the user clicks control k: the browser flips the input, onChange runs
\* changeCheckbox, the form stores the reported value and the group re-renders
Toggle(k) ==
  /\ k \in DOMAIN rendered.controls
  /\ ~rendered.controls[k].disabled
  /\ LET inputs == [refs EXCEPT ![k] = ~@]
         next == [props EXCEPT !.value = changeCheckbox(props, inputs),
                               !.reported = TRUE]
     IN  /\ props' = next
         /\ rendered' = renderElement(next)
         /\ refs' = InputsOf(renderElement(next))
  /\ UNCHANGED <<typeName, options, built, mutations, Callbacks, granted, checked,
                 docs, inv, started>>

----------------------------------------------------------------------------
(* Specifications *)

NoCheck ==
  [called |-> FALSE, op |-> "none", user |-> NoUser, document |-> Null,
   outcome |-> CheckResult(FALSE, {}, FALSE)]

NoHandlers ==
  /\ docs = [d \in DocIds |-> Null]
  /\ inv = [p \in Procs |-> IdleInvocation]
  /\ started = 0

NoForm ==
  /\ props = NoProps
  /\ rendered = renderElement(NoProps)
  /\ refs = <<>>

\* getDefaultMutations(typeName, options), as one call
Build ==
  /\ ~built
  /\ built' = TRUE
  /\ Callbacks' = registerCollectionCallbacks(Callbacks, typeName)
  /\ mutations' = getDefaultMutations(typeName, options)
  /\ UNCHANGED <<typeName, options, granted, checked, docs, inv, started,
                 props, rendered, refs>>

InitFactory ==
  /\ typeName \in TypeNames
  /\ options \in OptionObjects \cup {OmittedOptions}
  /\ built = FALSE
  /\ mutations = {}
  /\ Callbacks = <<>>
  /\ granted = {}
  /\ checked = NoCheck
  /\ NoHandlers
  /\ NoForm

SpecFactory == InitFactory /\ [][Build]_vars

\* the option objects whose descriptors all exist
CheckOptions ==
  {o \in OptionObjects : o.create = "true" /\ o.update = "true"
                           /\ o.upsert = "true" /\ o.delete = "true"}
  \cup {OmittedOptions}

DocumentValues == {Null} \cup {Document("d1", u) : u \in Users}

\* what the oracle may grant one user
Oracles(tn, user) ==
  {{<<user, ActionName(tn, s)>> : s \in S} :
     S \in {T \in SUBSET PermissionSuffixes : Cardinality(T) <= MaxGrants}}

\* a caller evaluates mutations[op].check(user, document)
CheckCalled ==
  /\ ~checked.called
  /\ \E op \in mutations \ {"upsert"}, user \in UserValues,
        document \in DocumentValues :
       \E oracle \in Oracles(typeName, user) :
         /\ granted' = oracle
         /\ checked' = [called |-> TRUE, op |-> op, user |-> user,
                        document |-> document,
                        outcome |-> Check(op, DefaultOptions(options), typeName,
                                          oracle, user, document)]
  /\ UNCHANGED <<typeName, options, built, mutations, Callbacks,
                 docs, inv, started, props, rendered, refs>>

InitCheck ==
  /\ typeName \in TypeNames
  /\ options \in CheckOptions
  /\ built = TRUE
  /\ mutations = getDefaultMutations(typeName, options)
  /\ Callbacks = registerCollectionCallbacks(<<>>, typeName)
  /\ granted = {}
  /\ checked = NoCheck
  /\ NoHandlers
  /\ NoForm

SpecCheck == InitCheck /\ [][CheckCalled]_vars

HandlerTypeName == <<"P", "s">>

\* the option objects the handlers run under: the default, upsert with create
\* only, and all four with overrides
HandlerOptions ==
  { OmittedOptions,
    [OmittedOptions EXCEPT !.passed = TRUE, !.create = "true", !.upsert = "true"],
    [OmittedOptions EXCEPT !.passed = TRUE, !.create = "true", !.update = "true",
                           !.upsert = "true", !.delete = "true",
                           !.newCheck = "denyAll", !.editCheck = "absentOnly"] }

\* alice may create, and edit and remove her own; bob may edit and remove all
HandlerGrants(tn) ==
  {<<"alice", ActionName(tn, s)>> : s \in {".new", ".edit.own", ".remove.own"}}
  \cup {<<"bob", ActionName(tn, s)>> : s \in {".edit.all", ".remove.all"}}

Init ==
  /\ typeName = HandlerTypeName
  /\ options \in HandlerOptions
  /\ built = TRUE
  /\ mutations = getDefaultMutations(typeName, options)
  /\ Callbacks = registerCollectionCallbacks(<<>>, typeName)
  /\ granted = HandlerGrants(typeName)
  /\ checked = NoCheck
  /\ \E owner \in Users :
       docs = [d \in DocIds |-> IF d = "d1" THEN Document(d, owner) ELSE Null]
  /\ inv = [p \in Procs |-> IdleInvocation]
  /\ started = 0
  /\ NoForm

Next ==
  \E p \in Procs :
    \/ CreateInvoked(p)
    \/ UpdateInvoked(p)
    \/ UpsertInvoked(p)
    \/ DeleteInvoked(p)
    \/ ConnectorsGetResolves(p)
    \/ UpdateResumes(p)
    \/ DeleteResumes(p)
    \/ UpsertResumes(p)
    \/ CreateMutatorResolves(p)
    \/ UpdateMutatorResolves(p)
    \/ DeleteMutatorResolves(p)
    \/ Settled(p)

Spec == Init /\ [][Next]_vars

InitForm ==
  /\ typeName = HandlerTypeName
  /\ options = OmittedOptions
  /\ built = FALSE
  /\ mutations = {}
  /\ Callbacks = <<>>
  /\ granted = {}
  /\ checked = NoCheck
  /\ NoHandlers
  /\ \E os \in OptionLists, variant \in {"checkbox", "switch"} :
       \E value \in SubLists(os) :
         props = [options |-> os, disabled |-> FALSE, variant |-> variant,
                  value |-> value, reported |-> FALSE]
  /\ rendered = renderElement(props)
  /\ refs = InputsOf(rendered)

NextForm == \E k \in 1..MaxOptions : Toggle(k)

SpecForm == InitForm /\ [][NextForm]_vars

----------------------------------------------------------------------------
(* Properties *)

Operations == {"create", "update", "upsert", "delete"}

NoFlagGiven(o) == \A k \in Operations : o[k] = Undefined

\* C1: getDefaultMutations returns exactly the operations whose option flag
\* is true, and all four when no flag is given, whether the options argument
\* is omitted or carries only override predicates.
C1_KeysMatchFlags ==
  built =>
    mutations = IF NoFlagGiven(options) THEN Operations
                ELSE {k \in Operations : options[k] = "true"}

OverrideOf(o, op) ==
  IF op = "create" THEN o.newCheck
  ELSE IF op = "update" THEN o.editCheck ELSE o.removeCheck

\* C2: when the override predicate of create, update or delete is configured,
\* check(user, document) returns the override's result for every user and
\* document, absent ones included, and asks neither Users.owns nor Users.canDo.
C2_OverrideIsAuthoritative ==
  (checked.called /\ OverrideOf(options, checked.op) # Undefined) =>
    /\ checked.outcome.result =
         ApplyOverride(OverrideOf(options, checked.op), checked.user, checked.document)
    /\ checked.outcome.canDo = {}
    /\ ~checked.outcome.owns

\* an override grants an absent user what the default rule would deny
C2_Witness ==
  /\ checked.called
  /\ checked.op = "update"
  /\ options.editCheck = "absentOnly"
  /\ checked.user = NoUser
  /\ checked.outcome.result

OwnAction(op) == IF op = "update" THEN ".edit.own" ELSE ".remove.own"
AllAction(op) == IF op = "update" THEN ".edit.all" ELSE ".remove.all"
Allowed(user, suffix) == <<user, Append(toLowerCase(typeName), suffix)>> \in granted

\* C3: with no override, the update (delete) check grants access iff user and
\* document are both present and either the user owns the document and may
\* '<type>.edit.own' ('.remove.own'), or does not own it and may
\* '<type>.edit.all' ('.remove.all'), <type> being the lower-cased type name.
C3_OwnershipRule ==
  (/\ checked.called
   /\ checked.op \in {"update", "delete"}
   /\ OverrideOf(options, checked.op) = Undefined) =>
    (checked.outcome.result <=>
       /\ checked.user # NoUser
       /\ checked.document # Null
       /\ \/ /\ checked.document.userId = checked.user
             /\ Allowed(checked.user, OwnAction(checked.op))
          \/ /\ checked.document.userId # checked.user
             /\ Allowed(checked.user, AllAction(checked.op)))

\* an owner who holds only the '.all' permission is denied
C3_Witness ==
  /\ checked.called
  /\ checked.op = "delete"
  /\ options.removeCheck = Undefined
  /\ checked.user # NoUser
  /\ checked.document # Null
  /\ checked.document.userId = checked.user
  /\ Allowed(checked.user, ".remove.all")
  /\ ~Allowed(checked.user, ".remove.own")
  /\ ~checked.outcome.result

IsHandlerCall(c) == c \in {"create.mutation", "update.mutation"}
HandlerCalls(r) == SelectSeq(r.calls, IsHandlerCall)

\* the upsert handler has gone past its existence probe
Dispatched(r) == r.op = "upsert" /\ r.handler # "upsert"

\* C4: after the existence probe, upsert invokes exactly one handler: the
\* create descriptor's when the selector matches no document, the update
\* descriptor's when it matches one.
C4_ExactlyOneHandler ==
  \A p \in Procs :
    Dispatched(inv[p]) =>
      HandlerCalls(inv[p]) = IF inv[p].existingDocument = Null
                             THEN <<"create.mutation">>
                             ELSE <<"update.mutation">>

CallbackGrid(tn) ==
  {Append(toLowerCase(tn), a \o ph) :
     a \in {".create", ".update", ".delete"},
     ph \in {".validate", ".before", ".after", ".async"}}

\* C5: registerCollectionCallbacks registers exactly 12 definitions with
\* pairwise distinct names, the names being the full grid
\* '<type>.<action>.<phase>' over create/update/delete and
\* validate/before/after/async.
C5_TwelveCallbacks ==
  built =>
    /\ Len(Callbacks) = 12
    /\ \A i, j \in DOMAIN Callbacks : Callbacks[i].name = Callbacks[j].name => i = j
    /\ {Callbacks[i].name : i \in DOMAIN Callbacks} = CallbackGrid(typeName)

\* the calls a handler made after it was entered
RECURSIVE CallsSinceEntry(_)
CallsSinceEntry(calls) ==
  IF calls = <<>> THEN <<>>
  ELSE IF IsHandlerCall(calls[Len(calls)]) THEN <<>>
  ELSE Append(CallsSinceEntry(SubSeq(calls, 1, Len(calls) - 1)), calls[Len(calls)])

HandlerCallsMade(r) == IF HandlerCalls(r) = <<>> THEN r.calls ELSE CallsSinceEntry(r.calls)

CreateCheckOf(r) ==
  createCheck(DefaultOptions(options), typeName, granted, r.currentUser, r.data).result

\* C6: a create handler invoked for a user whose create check returns false
\* fails without calling the Storage Connector or createMutator, and the check
\* it evaluated was given the incoming input data.
C6_CreateDeniedBeforePersistence ==
  \A p \in Procs :
    (inv[p].handler = "create" /\ ~CreateCheckOf(inv[p])) =>
      /\ inv[p].pc = "failed"
      /\ HandlerCallsMade(inv[p]) = <<>>
      /\ ~inv[p].wrote
      /\ inv[p].error = "AuthorizationDenied" => inv[p].checkArg = inv[p].data

\* a user without '<type>.new', no override configured, is refused
C6_Witness ==
  \E p \in Procs :
    /\ inv[p].op = "create"
    /\ inv[p].handler = "create"
    /\ options.newCheck = Undefined
    /\ ~canDo(granted, inv[p].currentUser, ActionName(typeName, ".new"))
    /\ inv[p].error = "AuthorizationDenied"

\* the update or delete handler has evaluated its check on the fetched document
CheckedFetched(r) ==
  /\ r.handler \in {"update", "delete"}
  /\ r.pc \in {"mutator", "done", "failed"}
  /\ r.error # "TypeError"

FetchedCheckOf(r) ==
  Check(r.handler, DefaultOptions(options), typeName, granted,
        r.currentUser, r.document).result

Denied(r) == r.error = "AuthorizationDenied"

\* C7: an update or delete handler whose check returns false on the fetched
\* document (a non-owner without '.all', or no stored document) fails with an
\* authorization error, never calls its mutator, and leaves the stored
\* documents as they were.
C7_DeniedLeavesStoreUnchanged ==
  /\ [](\A p \in Procs :
          (CheckedFetched(inv[p]) /\ ~FetchedCheckOf(inv[p])) =>
            /\ inv[p].pc = "failed"
            /\ Denied(inv[p])
            /\ inv[p].mutatorArgs = NoArgs
            /\ \A i \in DOMAIN inv[p].calls :
                 inv[p].calls[i] \notin {"updateMutator", "deleteMutator"}
            /\ ~inv[p].wrote)
  /\ [][\A p \in Procs :
          (inv[p].handler \in {"update", "delete"} /\ inv[p].pc = "resume"
             /\ ~FetchedCheckOf(inv[p]) /\ inv'[p] # inv[p]) =>
            docs' = docs]_vars

\* a non-owner without '<type>.edit.all' is refused
C7_Witness ==
  \E p \in Procs :
    /\ inv[p].handler = "update"
    /\ options.editCheck = Undefined
    /\ Denied(inv[p])
    /\ inv[p].document # Null
    /\ inv[p].document.userId # inv[p].currentUser
    /\ inv[p].currentUser # NoUser
    /\ docs[inv[p].selector.documentId] = inv[p].document

BranchOf(r) == IF r.existingDocument = Null THEN "create" ELSE "update"

PassesBranchCheck(r) ==
  Check(BranchOf(r), DefaultOptions(options), typeName, granted, r.currentUser,
        IF r.existingDocument = Null THEN r.data ELSE r.existingDocument).result

\* C8: an upsert with input {selector, data} by a user who passes the check of
\* the branch taken calls exactly one persistence helper and returns its
\* result: updateMutator with the matched document's id and data when the
\* selector matches, createMutator with data when it does not.
C8_UpsertPersistsOnce ==
  \A p \in Procs :
    (/\ Dispatched(inv[p])
     /\ BranchOf(inv[p]) \in mutations
     /\ PassesBranchCheck(inv[p])) =>
      /\ inv[p].pc # "failed"
      /\ inv[p].mutatorArgs =
           IF BranchOf(inv[p]) = "update"
           THEN [name |-> "updateMutator",
                 documentId |-> inv[p].existingDocument._id, data |-> inv[p].data]
           ELSE [name |-> "createMutator", documentId |-> "none", data |-> inv[p].data]
      /\ inv[p].pc = "done" => inv[p].result # Null

\* C9: whenever updateMutator or deleteMutator is applied, the handler's check
\* holds of the document stored at that moment: it has not been deleted or
\* changed owner since the check approved it.
C9_CheckHoldsAtMutation ==
  \A p \in Procs :
    inv[p].appliedOn # NotApplied =>
      Check(inv[p].handler, DefaultOptions(options), typeName, granted,
            inv[p].currentUser, inv[p].appliedOn).result

\* C10: a control is rendered checked iff its option's value is a member of
\* the field's current value, the list changeCheckbox last reported.
C10_CheckedIffMember ==
  props.reported =>
    \A k \in DOMAIN rendered.controls :
      rendered.controls[k].checked <=> props.options[k].value \in Range(props.value)

=============================================================================
